---- MODULE Spec2Model ----
(***************************************************************************)
(* The user-directory view of src/App.tsx: a form (newUser, editingUser),  *)
(* an error banner (errorMessage), a delete marker (deletingId), the       *)
(* confirmation dialog, the "users" query cache and the add / update /     *)
(* delete mutations, together with the REST collection they talk to.       *)
(***************************************************************************)
EXTENDS Integers, Sequences, FiniteSets, TLC

\* ---------------------------------------------------------------- bounds
\* Identifiers the server may assign (records ever created, seed included).
MaxId == 3
\* Mutation requests (POST / PUT / DELETE) the view may issue in one run.
MaxReq == 2

Ids == 1..MaxId
ReqIds == 1..MaxReq
\* What the user types into the inputs; other values enter the form by handleEdit.
Names == {"Ann"}
Emails == {"ann@x.com"}

\* Failure texts of the transport (axios error.message).
NetworkError == "Network Error"
NotFound == "Request failed with status code 404"

\* ---------------------------------------------------------------- state
VARIABLES
  server,        \* the remote collection: sequence of User records
  nextId,        \* the identifier the server assigns next
  users,         \* data of the ["users"] query (the client cache)
  hasData,       \* the query has data (users is defined)
  queryError,    \* error of the ["users"] query
  fetchSt,       \* the query's fetch: "idle" | "sent" | "resp"
  fetchData,     \* the list carried by the GET response in flight
  newUser,       \* useState: the form fields {name, email}
  editingUser,   \* useState: the record being edited, NoUser for null
  errorMessage,  \* useState: <<>> for null, else <<prefix, text>>
  deletingId,    \* useState: 0 for null
  dialog,        \* the confirmation dialog: 0 closed, else the id asked about
  inflight,      \* the mutation requests, by request number
  nextReq,       \* number of the next mutation request
  lastEvent,     \* history: the handler or callback that acted last, or "other"
  lastResolved,  \* history: outcome of the mutation that resolved last
  deletedOk,     \* history: ids whose DELETE was reported successful
  selected,      \* history: id chosen by handleEdit, 0 once cleared or submitted
  raced,         \* history: a mutation was issued while another was in flight
  lastFailure    \* history: <<kind, text>> of the failed mutation, when a failure
                 \* is the latest of the resolutions, selections and clears

vars == <<server, nextId, users, hasData, queryError, fetchSt, fetchData,
          newUser, editingUser, errorMessage, deletingId, dialog, inflight,
          nextReq, lastEvent, lastResolved, deletedOk, selected, raced,
          lastFailure>>

serverVars == <<server, nextId>>
queryVars == <<users, hasData, queryError, fetchSt, fetchData>>
viewVars == <<newUser, editingUser, errorMessage, deletingId>>
histVars == <<lastResolved, deletedOk, selected, raced, lastFailure>>

\* ---------------------------------------------------------------- values
User(i, n, e) == [id |-> i, name |-> n, email |-> e]
NoUser == User(0, "", "")
EmptyForm == [name |-> "", email |-> ""]
NoError == <<>>

\* A request body is the set of its <<field, value>> pairs.
Body(nu) == {<<"name", nu.name>>, <<"email", nu.email>>}
NoBody == {}
HasField(body, f) == \E p \in body : p[1] = f
Field(body, f) == (CHOOSE p \in body : p[1] = f)[2]
Fields(body) == {p[1] : p \in body}

NoReq == [kind |-> "none", id |-> 0, body |-> NoBody, st |-> "none"]

IdsOf(list) == {list[j].id : j \in DOMAIN list}
Remove(list, i) == SelectSeq(list, LAMBDA u : u.id # i)

\* ---------------------------------------------------------------- REST client
\* addUser: POST API_URL with the new user as body.
addUser(nu) ==
  [kind |-> "POST", id |-> 0, body |-> Body(nu), st |-> "sent"]

\* Mutant of updateUser: the whole argument, id included, is sent as body.
updateUser_IdInBody(v) ==
  [kind |-> "PUT", id |-> v.id,
   body |-> Body([name |-> v.name, email |-> v.email]) \cup {<<"id", v.id>>},
   st |-> "sent"]

\* updateUser: PUT API_URL/id with the remaining fields as body.
updateUser(v) ==
  [kind |-> "PUT", id |-> v.id,
   body |-> Body([name |-> v.name, email |-> v.email]),
   st |-> "sent"]

\* deleteUser: DELETE API_URL/id.
deleteUser(i) ==
  [kind |-> "DELETE", id |-> i, body |-> NoBody, st |-> "sent"]

\* mutate(): the request is issued under the next request number.
Mutate(req) ==
  /\ nextReq <= MaxReq
  /\ inflight' = [inflight EXCEPT ![nextReq] = req]
  /\ nextReq' = nextReq + 1

InFlight == {k \in ReqIds : inflight[k].kind # "none"}
AnyInFlight == InFlight # {}

\* isPending of a mutation: a request of its kind has not settled yet.
Pending(kind) == \E k \in ReqIds : inflight[k].kind = kind
addMutationIsPending == Pending("POST")
updateMutationIsPending == Pending("PUT")

\* ---------------------------------------------------------------- the query
\* Mutant of InvalidateQueries: a fetch in flight is not cancelled; the
\* refetch is folded into it.
InvalidateQueries_NoCancel ==
  /\ fetchSt' = (IF fetchSt = "idle" THEN "sent" ELSE fetchSt)
  /\ fetchData' = fetchData
  /\ queryError' = (IF hasData THEN queryError ELSE FALSE)
  /\ UNCHANGED <<users, hasData>>

\* invalidateQueries: the active query is refetched; a fetch in flight is
\* cancelled (its response is ignored) and a new GET is sent.
InvalidateQueries ==
  /\ fetchSt' = "sent"
  /\ fetchData' = <<>>
  /\ queryError' = (IF hasData THEN queryError ELSE FALSE)
  /\ UNCHANGED <<users, hasData>>

\* isLoading: no data yet and a fetch in flight.
isLoading == ~hasData /\ fetchSt # "idle"

\* The form and the list are rendered only past the two early returns.
ViewShown == ~isLoading /\ ~queryError /\ hasData

\* The server answers the GET with the collection as it is now.
ServerGet ==
  /\ fetchSt = "sent"
  /\ fetchSt' = "resp"
  /\ fetchData' = server
  /\ lastEvent' = "other"
  /\ UNCHANGED <<serverVars, users, hasData, queryError, viewVars, dialog,
                 inflight, nextReq, lastResolved, deletedOk, selected, raced, lastFailure>>

\* Mutant of SetQueryData: the fetched list is merged into the cached one.
SetQueryData_Merge(data) ==
  /\ users' = users \o data
  /\ hasData' = TRUE
  /\ queryError' = FALSE

\* The query's data is replaced by the fetched list; its error is reset.
SetQueryData(data) ==
  /\ users' = data
  /\ hasData' = TRUE
  /\ queryError' = FALSE

\* The response arrives: the query succeeds with the fetched list.
FetchSuccess ==
  /\ fetchSt = "resp"
  /\ SetQueryData(fetchData)
  /\ fetchSt' = "idle"
  /\ fetchData' = <<>>
  /\ lastEvent' = "FetchSuccess"
  /\ UNCHANGED <<serverVars, viewVars, dialog, inflight, nextReq,
                 lastResolved, deletedOk, selected, raced, lastFailure>>

\* The GET fails (transport failure, retries exhausted): data is kept.
FetchError ==
  /\ fetchSt \in {"sent", "resp"}
  /\ queryError' = TRUE
  /\ fetchSt' = "idle"
  /\ fetchData' = <<>>
  /\ lastEvent' = "other"
  /\ UNCHANGED <<serverVars, users, hasData, viewVars, dialog, inflight,
                 nextReq, lastResolved, deletedOk, selected, raced, lastFailure>>

\* ---------------------------------------------------------------- the server
\* POST: the server appends a record under a fresh identifier.
ServerCreate(body) ==
  /\ nextId <= MaxId
  /\ server' = Append(server, User(nextId, Field(body, "name"), Field(body, "email")))
  /\ nextId' = nextId + 1

\* PUT /id: the fields of the body overwrite those of record id.
Merge(u, body) ==
  [f \in {"id", "name", "email"} |-> IF HasField(body, f) THEN Field(body, f) ELSE u[f]]

ServerUpdate(i, body) ==
  /\ i \in IdsOf(server)
  /\ server' = [j \in DOMAIN server |->
                  IF server[j].id = i THEN Merge(server[j], body) ELSE server[j]]
  /\ UNCHANGED nextId

\* DELETE /id: record id is removed.
ServerDelete(i) ==
  /\ i \in IdsOf(server)
  /\ server' = Remove(server, i)
  /\ UNCHANGED nextId

ServerApply(r) ==
  CASE r.kind = "POST" -> ServerCreate(r.body)
    [] r.kind = "PUT" -> ServerUpdate(r.id, r.body)
    [] r.kind = "DELETE" -> ServerDelete(r.id)

\* The server applies request k and answers 2xx ("done": the request has
\* taken effect and its answer is on the way back).
ServerHandle(k) ==
  /\ inflight[k].st = "sent"
  /\ ServerApply(inflight[k])
  /\ inflight' = [inflight EXCEPT ![k].st = "done"]
  /\ lastEvent' = "other"
  /\ UNCHANGED <<queryVars, viewVars, dialog, nextReq, histVars>>

\* The failures request k can end in, by message text: the answer is lost on
\* the way back (a reported failure of a request that took effect); or the
\* request never reaches the server; or the server holds no record under the
\* request's identifier (404).
Failure(k) ==
  LET r == inflight[k] IN
  IF r.st = "done" THEN {NetworkError}
  ELSE IF r.st = "sent"
    THEN {NetworkError} \cup
         (IF r.kind \in {"PUT", "DELETE"} /\ r.id \notin IdsOf(server)
            THEN {NotFound} ELSE {})
    ELSE {}

\* ---------------------------------------------------------------- Init
SeedUsers == <<User(1, "Ann", "ann@x.com"), User(2, "Bob", "bob@x.com")>>

Init ==
  /\ server = SeedUsers
  /\ nextId = 3
  /\ users = <<>>
  /\ hasData = FALSE
  /\ queryError = FALSE
  /\ fetchSt = "sent"
  /\ fetchData = <<>>
  /\ newUser = EmptyForm
  /\ editingUser = NoUser
  /\ errorMessage = NoError
  /\ deletingId = 0
  /\ dialog = 0
  /\ inflight = [k \in ReqIds |-> NoReq]
  /\ nextReq = 1
  /\ lastEvent = "Init"
  /\ lastResolved = "none"
  /\ deletedOk = {}
  /\ selected = 0
  /\ raced = FALSE
  /\ lastFailure = <<>>

\* ---------------------------------------------------------------- the form
\* onChange of the name input: setNewUser({...newUser, name}).
TypeName(n) ==
  /\ ViewShown /\ dialog = 0
  /\ newUser' = [newUser EXCEPT !.name = n]
  /\ lastEvent' = "other"
  /\ UNCHANGED <<serverVars, queryVars, editingUser, errorMessage, deletingId,
                 dialog, inflight, nextReq, lastResolved, deletedOk, selected, raced, lastFailure>>

\* onChange of the email input: setNewUser({...newUser, email}).
TypeEmail(e) ==
  /\ ViewShown /\ dialog = 0
  /\ newUser' = [newUser EXCEPT !.email = e]
  /\ lastEvent' = "other"
  /\ UNCHANGED <<serverVars, queryVars, editingUser, errorMessage, deletingId,
                 dialog, inflight, nextReq, lastResolved, deletedOk, selected, raced, lastFailure>>

\* The submit button is disabled while a create or an update is pending.
\* Mutant of SubmitDisabled: only a pending create disables the button.
SubmitDisabled_AddOnly == addMutationIsPending

SubmitDisabled == addMutationIsPending \/ updateMutationIsPending

\* Both inputs are required: the browser submits no form with an empty one.
\* Mutant of FormValid: only the name input is required.
FormValid_NameOnly == newUser.name # ""

FormValid == newUser.name # "" /\ newUser.email # ""

\* handleAddOrUpdate: update when a record is being edited, else create;
\* then the form fields are emptied.
SubmitForm ==
  /\ IF editingUser # NoUser
       THEN Mutate(updateUser([id |-> editingUser.id, name |-> newUser.name,
                               email |-> newUser.email]))
       ELSE Mutate(addUser(newUser))
  /\ newUser' = EmptyForm
  /\ UNCHANGED <<editingUser, errorMessage, deletingId>>

handleAddOrUpdate ==
  /\ ViewShown /\ dialog = 0
  /\ ~SubmitDisabled
  /\ FormValid
  /\ SubmitForm
  /\ lastEvent' = "handleAddOrUpdate"
  /\ selected' = 0
  /\ raced' = (raced \/ AnyInFlight)
  /\ UNCHANGED <<serverVars, queryVars, dialog, lastResolved, deletedOk, lastFailure>>

\* handleEdit: remember the record, fill the form from it, drop the error.
EditUser(user) ==
  /\ editingUser' = user
  /\ newUser' = [name |-> user.name, email |-> user.email]
  /\ errorMessage' = NoError
  /\ UNCHANGED deletingId

handleEdit(j) ==
  /\ ViewShown /\ dialog = 0
  /\ j \in DOMAIN users
  /\ EditUser(users[j])
  /\ lastEvent' = "handleEdit"
  /\ selected' = users[j].id
  /\ lastFailure' = <<>>
  /\ UNCHANGED <<serverVars, queryVars, dialog, inflight, nextReq,
                 lastResolved, deletedOk, raced>>

\* handleClearForm: empty the form, forget the selection, drop the error.
ClearForm ==
  /\ newUser' = EmptyForm
  /\ editingUser' = NoUser
  /\ errorMessage' = NoError
  /\ UNCHANGED deletingId

handleClearForm ==
  /\ ViewShown /\ dialog = 0
  /\ ClearForm
  /\ lastEvent' = "handleClearForm"
  /\ selected' = 0
  /\ lastFailure' = <<>>
  /\ UNCHANGED <<serverVars, queryVars, dialog, inflight, nextReq,
                 lastResolved, deletedOk, raced>>

\* ---------------------------------------------------------------- delete
\* The delete button of a record is disabled while deletingId is its id.
DeleteDisabled(i) == deletingId = i

\* handleDelete: the confirmation dialog opens; nothing else happens yet.
AskDelete(i) ==
  /\ dialog' = i
  /\ UNCHANGED <<viewVars, inflight, nextReq>>

handleDelete(i) ==
  /\ ViewShown /\ dialog = 0
  /\ i \in IdsOf(users)
  /\ ~DeleteDisabled(i)
  /\ AskDelete(i)
  /\ lastEvent' = "handleDelete"
  /\ UNCHANGED <<serverVars, queryVars, lastResolved, deletedOk, selected, raced, lastFailure>>

\* Mutant of ConfirmDelete: the DELETE is issued for the deletingId state,
\* which still holds its value of the last render.
ConfirmDelete_StaleId(i) ==
  /\ deletingId' = i
  /\ Mutate(deleteUser(deletingId))
  /\ UNCHANGED <<newUser, editingUser, errorMessage>>

\* result.isConfirmed: mark the id as being deleted and issue the DELETE.
ConfirmDelete(i) ==
  /\ deletingId' = i
  /\ Mutate(deleteUser(i))
  /\ UNCHANGED <<newUser, editingUser, errorMessage>>

DialogConfirm ==
  /\ dialog # 0
  /\ ConfirmDelete(dialog)
  /\ dialog' = 0
  /\ lastEvent' = "DialogConfirm"
  /\ raced' = (raced \/ AnyInFlight)
  /\ UNCHANGED <<serverVars, queryVars, lastResolved, deletedOk, selected, lastFailure>>

\* Mutant of DismissDelete: result.isConfirmed is not tested.
DismissDelete_Unchecked(i) ==
  /\ deletingId' = i
  /\ Mutate(deleteUser(i))
  /\ UNCHANGED <<newUser, editingUser, errorMessage>>

\* The dialog is cancelled or dismissed: the then-callback does nothing.
DismissDelete(i) ==
  UNCHANGED <<viewVars, inflight, nextReq>>

DialogDismiss ==
  /\ dialog # 0
  /\ DismissDelete(dialog)
  /\ dialog' = 0
  /\ lastEvent' = "DialogDismiss"
  /\ UNCHANGED <<serverVars, queryVars, lastResolved, deletedOk, selected, raced, lastFailure>>

\* ---------------------------------------------------------------- callbacks
AddPrefix == "Qo'shishda xato: "
UpdatePrefix == "Yangilashda xato: "
DeletePrefix == "O'chirishda xato: "

\* Mutant of addOnSuccess: the error message is left as it is.
addOnSuccess_KeepError ==
  /\ InvalidateQueries
  /\ UNCHANGED <<newUser, editingUser, errorMessage, deletingId>>

\* addMutation.onSuccess
addOnSuccess ==
  /\ InvalidateQueries
  /\ errorMessage' = NoError
  /\ UNCHANGED <<newUser, editingUser, deletingId>>

\* addMutation.onError
addOnError(text) ==
  /\ errorMessage' = <<AddPrefix, text>>
  /\ UNCHANGED <<newUser, editingUser, deletingId, queryVars>>

\* updateMutation.onSuccess
updateOnSuccess ==
  /\ InvalidateQueries
  /\ editingUser' = NoUser
  /\ errorMessage' = NoError
  /\ UNCHANGED <<newUser, deletingId>>

\* updateMutation.onError
updateOnError(text) ==
  /\ errorMessage' = <<UpdatePrefix, text>>
  /\ UNCHANGED <<newUser, editingUser, deletingId, queryVars>>

\* Mutant of deleteOnSuccess: the record is also removed from the cached
\* list by hand.
deleteOnSuccess_Patch ==
  /\ fetchSt' = "sent"
  /\ fetchData' = <<>>
  /\ users' = Remove(users, deletingId)
  /\ UNCHANGED <<hasData, queryError>>
  /\ errorMessage' = NoError
  /\ deletingId' = 0
  /\ UNCHANGED <<newUser, editingUser>>

\* deleteMutation.onSuccess
deleteOnSuccess ==
  /\ InvalidateQueries
  /\ errorMessage' = NoError
  /\ deletingId' = 0
  /\ UNCHANGED <<newUser, editingUser>>

\* Mutant of deleteOnError: the deleting marker is left as it is.
deleteOnError_KeepMarker(text) ==
  /\ errorMessage' = <<DeletePrefix, text>>
  /\ UNCHANGED <<newUser, editingUser, deletingId, queryVars>>

\* deleteMutation.onError
deleteOnError(text) ==
  /\ errorMessage' = <<DeletePrefix, text>>
  /\ deletingId' = 0
  /\ UNCHANGED <<newUser, editingUser, queryVars>>

\* A mutation settles once (no retry): its request leaves the network.
Settle(k) == inflight' = [inflight EXCEPT ![k] = NoReq]

\* A 2xx answer arrives: onSuccess runs; its Swal.fire replaces (dismisses)
\* a confirmation dialog that is open.
MutationSuccess(k) ==
  /\ inflight[k].st = "done"
  /\ CASE inflight[k].kind = "POST" -> addOnSuccess
       [] inflight[k].kind = "PUT" -> updateOnSuccess
       [] inflight[k].kind = "DELETE" -> deleteOnSuccess
  /\ Settle(k)
  /\ dialog' = 0
  /\ lastResolved' = "ok"
  /\ deletedOk' = IF inflight[k].kind = "DELETE"
                    THEN deletedOk \cup {inflight[k].id} ELSE deletedOk
  /\ lastEvent' = "MutationSuccess"
  /\ lastFailure' = <<>>
  /\ UNCHANGED <<serverVars, nextReq, selected, raced>>

\* Mutant of MutationError: a request whose answer was lost is sent again
\* instead of being reported.
MutationError_Retry(k) ==
  /\ inflight[k].st = "done"
  /\ inflight' = [inflight EXCEPT ![k].st = "sent"]
  /\ lastEvent' = "MutationError"
  /\ UNCHANGED <<serverVars, queryVars, viewVars, dialog, nextReq, histVars>>

\* A failure arrives: onError runs with the failure's message text.
MutationError(k) ==
  /\ \E text \in Failure(k) :
       /\ CASE inflight[k].kind = "POST" -> addOnError(text)
            [] inflight[k].kind = "PUT" -> updateOnError(text)
            [] inflight[k].kind = "DELETE" -> deleteOnError(text)
       /\ lastFailure' = <<inflight[k].kind, text>>
  /\ Settle(k)
  /\ lastResolved' = "err"
  /\ lastEvent' = "MutationError"
  /\ UNCHANGED <<serverVars, dialog, nextReq, deletedOk, selected, raced>>

\* ---------------------------------------------------------------- Next
Next ==
  \/ ServerGet
  \/ FetchSuccess
  \/ FetchError
  \/ \E n \in Names : TypeName(n)
  \/ \E e \in Emails : TypeEmail(e)
  \/ handleAddOrUpdate
  \/ \E j \in 1..MaxId : handleEdit(j)
  \/ handleClearForm
  \/ \E i \in Ids : handleDelete(i)
  \/ DialogConfirm
  \/ DialogDismiss
  \/ \E k \in ReqIds : ServerHandle(k)
  \/ \E k \in ReqIds : MutationSuccess(k)
  \/ \E k \in ReqIds : MutationError(k)

Spec == Init /\ [][Next]_vars

\* ================================================================ claims
\* Steps are told apart by lastEvent', the handler or callback that took
\* them, so that what a step may change is stated apart from what it does.

\* The request issued by a step under request number nextReq, the other
\* requests staying as they were.
IssuesOnly(req) ==
  /\ inflight'[nextReq] = req
  /\ \A k \in ReqIds : k # nextReq => inflight'[k] = inflight[k]

\* Request k settles in this step.
Settles(k) == inflight[k].kind # "none" /\ inflight'[k].kind = "none"

\* The name and email a request was submitted with.
Submitted(r) == [name |-> Field(r.body, "name"), email |-> Field(r.body, "email")]

\* C1: once handleEdit has selected record r, and until the form is cleared,
\* the next submission issues a PUT for r.id carrying the form's current name
\* and email and issues no POST, whatever resolves in between.
C1_EditThenSubmitUpdates ==
  [][(lastEvent' = "handleAddOrUpdate" /\ selected # 0) =>
       IssuesOnly([kind |-> "PUT", id |-> selected, body |-> Body(newUser),
                   st |-> "sent"])]_vars

\* C2: a failed create leaves the cached list alone (no invalidation, no
\* refetch), shows the failure's message text, and leaves the form holding
\* the submitted name and email.
C2_CreateFailureKeepsForm ==
  [][\A k \in ReqIds :
       (lastEvent' = "MutationError" /\ inflight[k].kind = "POST" /\ Settles(k)) =>
          /\ UNCHANGED queryVars
          /\ errorMessage' # NoError
          /\ errorMessage'[2] \in Failure(k)
          /\ newUser' = Submitted(inflight[k])]_vars

\* C3: a submission in create mode issues a POST carrying exactly the form's
\* name and email; when it succeeds the cache is invalidated, the collection
\* the following list fetch is served from holds a record with that name and
\* email, and the form fields are empty as the view returns to Idle.
C3_CreateSucceeds ==
  [][/\ (lastEvent' = "handleAddOrUpdate" /\ editingUser = NoUser) =>
          IssuesOnly([kind |-> "POST", id |-> 0, body |-> Body(newUser),
                      st |-> "sent"])
     /\ \A k \in ReqIds :
          (lastEvent' = "MutationSuccess" /\ inflight[k].kind = "POST" /\ Settles(k)) =>
             /\ fetchSt' = "sent"
             /\ \E j \in DOMAIN server :
                  /\ server[j].name = Submitted(inflight[k]).name
                  /\ server[j].email = Submitted(inflight[k]).email
             /\ newUser' = EmptyForm]_vars

\* C4: asking to delete and then dismissing or cancelling the dialog issues no
\* request and changes neither the form fields, the editing selection, the
\* error message, deletingId nor the cache.
C4_UnconfirmedDeleteChangesNothing ==
  [][lastEvent' \in {"handleDelete", "DialogDismiss"} =>
       UNCHANGED <<viewVars, queryVars, inflight, nextReq, serverVars>>]_vars

C4_Witness == lastEvent = "DialogDismiss" /\ dialog = 0 /\ hasData

\* C5: confirming the dialog for identifier i issues exactly one DELETE, for
\* i; when it succeeds the cache is invalidated, and no list a fetch delivers
\* from then on holds a record with identifier i.
C5_ConfirmedDelete ==
  [][/\ lastEvent' = "DialogConfirm" =>
          IssuesOnly([kind |-> "DELETE", id |-> dialog, body |-> NoBody,
                      st |-> "sent"])
     /\ \A k \in ReqIds :
          (lastEvent' = "MutationSuccess" /\ inflight[k].kind = "DELETE" /\ Settles(k)) =>
             fetchSt' = "sent" /\ fetchData' = <<>>
     /\ lastEvent' = "FetchSuccess" => IdsOf(users') \cap deletedOk = {}]_vars

C5_Witness ==
  /\ deletedOk # {}
  /\ lastEvent = "FetchSuccess"
  /\ users # <<>>

\* C6: the cached list holds at most one record with any given identifier.
C6_UniqueIds ==
  \A a, b \in DOMAIN users : users[a].id = users[b].id => a = b

C6_Witness == Len(users) = 3 /\ lastResolved = "ok"

\* C7: the cache changes only when a list fetch completes, and then to the
\* list the server returned; every successful mutation invalidates it and
\* starts a fetch; no mutation, submitted, succeeded or failed, writes to it.
C7_CacheReplacedOnlyByFetch ==
  [][/\ (users' # users \/ hasData' # hasData) =>
          lastEvent' = "FetchSuccess" /\ fetchSt = "resp" /\ users' = fetchData
     /\ (fetchSt = "sent" /\ fetchSt' = "resp") => fetchData' = server
     /\ lastEvent' = "MutationSuccess" =>
          fetchSt' = "sent" /\ fetchData' = <<>> /\ users' = users
     /\ lastEvent' \in {"MutationError", "handleAddOrUpdate", "DialogConfirm"} =>
          UNCHANGED queryVars]_vars

C7_Witness ==
  /\ lastResolved = "ok"
  /\ lastEvent = "FetchSuccess"
  /\ users = server
  /\ users # SeedUsers

\* C8: a submission issues exactly one POST or PUT and a confirmed deletion
\* exactly one DELETE; no other step issues or re-sends a request, and a
\* failed request is gone from the network once its failure is reported.
C8_OneRequestPerAction ==
  [][/\ lastEvent' = "handleAddOrUpdate" =>
          /\ inflight[nextReq].kind = "none"
          /\ inflight'[nextReq].kind \in {"POST", "PUT"}
          /\ inflight'[nextReq].st = "sent"
          /\ \A k \in ReqIds : k # nextReq => inflight'[k] = inflight[k]
     /\ lastEvent' = "DialogConfirm" =>
          /\ inflight[nextReq].kind = "none"
          /\ inflight'[nextReq].kind = "DELETE"
          /\ inflight'[nextReq].st = "sent"
          /\ \A k \in ReqIds : k # nextReq => inflight'[k] = inflight[k]
     /\ lastEvent' \notin {"handleAddOrUpdate", "DialogConfirm"} =>
          \A k \in ReqIds : inflight'[k].st = "sent" => inflight'[k] = inflight[k]
     /\ lastEvent' = "MutationError" =>
          /\ Cardinality({k \in ReqIds : Settles(k)}) = 1
          /\ \A k \in ReqIds : Settles(k) \/ inflight'[k] = inflight[k]]_vars

C8_Witness ==
  /\ lastEvent = "MutationError"
  /\ nextReq = 2
  /\ ~AnyInFlight

\* C9: a PUT carries the identifier in its path only and exactly name and
\* email in its body, the identifier being that of the record selected; when
\* the server applies it, no record is added, removed or re-identified and
\* no record but the one with that identifier changes.
C9_UpdateKeepsIdentifier ==
  /\ [](\A k \in ReqIds : inflight[k].kind = "PUT" =>
          inflight[k].id \in Ids /\ Fields(inflight[k].body) = {"name", "email"})
  /\ [][/\ (lastEvent' = "handleAddOrUpdate" /\ editingUser # NoUser) =>
             inflight'[nextReq].kind = "PUT" /\ inflight'[nextReq].id = editingUser.id
        /\ \A k \in ReqIds :
             (inflight[k].kind = "PUT" /\ inflight[k].st = "sent" /\ inflight'[k].st = "done") =>
                /\ Len(server') = Len(server)
                /\ \A j \in DOMAIN server :
                     /\ server'[j].id = server[j].id
                     /\ server[j].id # inflight[k].id => server'[j] = server[j]]_vars

C9_Witness ==
  \E j \in DOMAIN server : server[j].id = 2 /\ server[j].name = "Ann"

\* Every mutation has resolved and the last fetch has completed.
Quiescent == ~AnyInFlight /\ fetchSt = "idle" /\ hasData /\ ~queryError

C11_SelectionUntilClearedOrSubmitted ==
  [][/\ lastEvent' = "handleEdit" =>
          editingUser' # NoUser /\ editingUser'.id = selected'
     /\ lastEvent' = "handleClearForm" => editingUser' = NoUser
     /\ (lastEvent' = "handleAddOrUpdate" /\ editingUser # NoUser) =>
          editingUser' = NoUser
     /\ (editingUser # NoUser /\ editingUser' # editingUser) =>
          lastEvent' \in {"handleEdit", "handleClearForm",
                          "handleAddOrUpdate"}]_vars

\* C12: a form submission leaves a create-or-update request pending (submit
\* control disabled); when that request resolves nothing is pending and the
\* submit control is enabled, and then on success the form fields are empty
\* and no error message is shown, on failure the error message carries the
\* failure's text.
C12_SubmitThenIdle ==
  [][/\ lastEvent' = "handleAddOrUpdate" => SubmitDisabled'
     /\ \A k \in ReqIds :
          (inflight[k].kind \in {"POST", "PUT"} /\ Settles(k)) =>
             /\ ~SubmitDisabled'
             /\ lastEvent' = "MutationSuccess" =>
                  newUser' = EmptyForm /\ errorMessage' = NoError
             /\ lastEvent' = "MutationError" =>
                  /\ errorMessage' # NoError
                  /\ errorMessage'[2] \in Failure(k)]_vars

\* C13: when a DELETE request resolves, deletingId is cleared on success and
\* on failure alike, so the delete control of its record is not disabled; on
\* failure the error message is the delete failure's message and the query
\* (cache and fetch) is left untouched.
C13_DeleteResolved ==
  [][\A k \in ReqIds : \A i \in Ids :
       (inflight[k].kind = "DELETE" /\ inflight[k].id = i /\ Settles(k)) =>
          /\ deletingId' = 0
          /\ ~DeleteDisabled(i)'
          /\ lastEvent' = "MutationError" =>
               /\ errorMessage' # NoError
               /\ errorMessage'[1] = DeletePrefix
               /\ errorMessage'[2] \in Failure(k)
               /\ UNCHANGED queryVars]_vars

C13_Witness ==
  /\ lastEvent = "MutationError"
  /\ lastFailure # <<>>
  /\ lastFailure[1] = "DELETE"
  /\ errorMessage = <<DeletePrefix, lastFailure[2]>>
  /\ deletingId = 0
  /\ ViewShown
  /\ \E i \in IdsOf(users) : ~DeleteDisabled(i)

\* C14: while a DELETE request for identifier i is in flight, deletingId is i
\* and the delete control of record i is disabled, and no two DELETE requests
\* for the same identifier are in flight together.
C14_DeleteMarkedWhileInFlight ==
  /\ \A k \in ReqIds :
       inflight[k].kind = "DELETE" =>
          deletingId = inflight[k].id /\ DeleteDisabled(inflight[k].id)
  /\ \A k, m \in ReqIds :
       (k # m /\ inflight[k].kind = "DELETE" /\ inflight[m].kind = "DELETE") =>
          inflight[k].id # inflight[m].id

\* C15: at most one create-or-update request is in flight at any moment, and
\* while one is in flight the submit control is disabled.
C15_OneSubmissionInFlight ==
  /\ Cardinality({k \in ReqIds : inflight[k].kind \in {"POST", "PUT"}}) <= 1
  /\ (\E k \in ReqIds : inflight[k].kind \in {"POST", "PUT"}) => SubmitDisabled

\* A submission is pending while the form is filled in again and a request
\* slot is free: only the disabled control keeps the form from being sent.
C15_Witness ==
  /\ \E k \in ReqIds : inflight[k].kind \in {"POST", "PUT"}
  /\ ViewShown /\ dialog = 0
  /\ FormValid
  /\ nextReq <= MaxReq

PrefixOf(kind) ==
  CASE kind = "POST" -> AddPrefix
    [] kind = "PUT" -> UpdatePrefix
    [] kind = "DELETE" -> DeletePrefix

\* C16: the error message is non-null exactly when the latest of the mutation
\* resolutions, handleEdit selections and handleClearForm clears was a failed
\* mutation, and then it is that mutation's prefix with its failure text.
C16_ErrorIffLastWasFailure ==
  /\ errorMessage # NoError <=> lastFailure # <<>>
  /\ lastFailure # <<>> =>
       errorMessage = <<PrefixOf(lastFailure[1]), lastFailure[2]>>

\* A failed delete has reported its error and a later create or update is
\* answered and about to succeed.
C16_Witness ==
  /\ errorMessage # NoError
  /\ errorMessage[1] = DeletePrefix
  /\ \E k \in ReqIds : inflight[k].kind \in {"POST", "PUT"} /\ inflight[k].st = "done"

\* C17: every create or update request in flight carries a non-empty name
\* and a non-empty email.
C17_NoEmptySubmission ==
  \A k \in ReqIds :
    inflight[k].kind \in {"POST", "PUT"} =>
       /\ HasField(inflight[k].body, "name")
       /\ HasField(inflight[k].body, "email")
       /\ Field(inflight[k].body, "name") # ""
       /\ Field(inflight[k].body, "email") # ""

\* An update is in flight that was submitted after an earlier submission had
\* emptied the form and failed, the editing selection being remembered.
C17_Witness ==
  /\ editingUser # NoUser
  /\ lastResolved = "err"
  /\ newUser = EmptyForm
  /\ \E k \in ReqIds : k >= 2 /\ inflight[k].kind = "PUT"

====
